---- MODULE Spec2Model ----
(***************************************************************************)
(* Model of sheevy (src/app.js, final revision at lines 484-1020): the     *)
(* GET /drive/:fileId route with its on-disk gzip cache and lock marker    *)
(* (Spec), the GET /:spreadsheetId/:sheetParam route with its in-memory    *)
(* cache (SpecSheet), and the pure functions behind it: the normalizer and *)
(* CSV encoder (SpecCsv, SpecCell, SpecEnc), the column labels (SpecCol)   *)
(* and the cache key (SpecKey, and SpecRaw with the response).  SpecWait   *)
(* is one call of waitForCacheFile with time counted in poll intervals,    *)
(* the lock marker in the hands of the other requests.                     *)
(*                                                                         *)
(* Node runs one handler segment at a time: a handler runs from one await  *)
(* or event callback to the next without interleaving, so every action     *)
(* below is one such segment.  One fileId is modelled; the paths of the    *)
(* lock marker and of the cache file are functions of the fileId only.     *)
(*                                                                         *)
(* Time advances in ticks of TickMs milliseconds, TimeoutTicks of them to   *)
(* the 30 s timeout.  Instead of the wall clock the model keeps the         *)
(* differences the code computes: lock.age is Date.now() - ctime of the     *)
(* lock marker, req[r].waited is Date.now() - startTime of the wait, both   *)
(* in ticks and saturating at AgeCap, past the only threshold they are      *)
(* compared with.  A tick is at least one poll interval long, so a waiting  *)
(* request polls at least once per tick and may poll at any moment.         *)
(***************************************************************************)
EXTENDS Integers, Sequences, FiniteSets, TLC

\* ---------------------------------------------------------------- bounds
MaxReq == 3
ChunkCount == 1
MaxVer == 2
TimeoutTicks == 3
MaxSheetReq == 2
MaxRows == 3
MaxCols == 2
MaxCellLen == 3
EncRows == 2
EncCols == 2
GridCellLen == 1
MaxIndex == 710

\* ------------------------------------------------------ program constants
TIMEOUT == 30000
INTERVAL == 500
CACHE_TTL_MS == 30000

Requests == 1..MaxReq
TickMs == TIMEOUT \div TimeoutTicks
AgeCap == TimeoutTicks + 2

VARIABLES
  lock,       \* the lock marker file: existence, age in ticks, creating request
  file,       \* the cache file: existence and cells
  req,        \* per request: handler position, response, download progress
  remoteVer,  \* version of the content the remote file currently has
  killed,     \* history: the process was killed from outside at least once
  memoryCache, \* sheet route: the in-memory cache, key -> rows and age in ticks
  sreq,       \* sheet route: per request its query, handler position, response
  sheet,      \* sheet route: version of the rows the remote spreadsheet holds
  arg,        \* input of a pure function under check
  ret         \* its result, once applied

driveVars == <<lock, file, req, remoteVer, killed>>
sheetVars == <<memoryCache, sreq, sheet>>
pureVars == <<arg, ret>>
vars == <<lock, file, req, remoteVer, killed, memoryCache, sreq, sheet, arg, ret>>

\* ------------------------------------------------------------ file names
\* Remote file names as character sequences, for the ".csv" suffix test.
Names ==
  { <<"a", ".", "c", "s", "v">>,
    <<"A", ".", "C", "S", "V">>,
    <<"a", ".", "C", "s", "v">>,
    <<"a", ".", "t", "x", "t">>,
    <<"a", "c", "s", "v">>,
    <<"c", "s", "v", ".">>,
    <<".", "c", "s">> }

LowerChar(c) ==
  CASE c = "A" -> "a"
    [] c = "C" -> "c"
    [] c = "S" -> "s"
    [] c = "V" -> "v"
    [] OTHER -> c

toLowerCase(s) == [i \in 1..Len(s) |-> LowerChar(s[i])]

endsWith(s, suffix) ==
  /\ Len(s) >= Len(suffix)
  /\ SubSeq(s, Len(s) - Len(suffix) + 1, Len(s)) = suffix

DotCsv == <<".", "c", "s", "v">>

IsCsvName(name) == endsWith(toLowerCase(name), DotCsv)

\* ------------------------------------------------------- content and gzip
\* The remote content of version v is the chunk sequence <<v,1>>..<<v,n>>.
Chunk(v, i) == <<v, i>>

RemoteBytes(v) == [i \in 1..ChunkCount |-> Chunk(v, i)]

\* A cell of the cache file: a compressed chunk, the gzip trailer (which
\* carries the checksum of the whole content, here its version), or a hole
\* left by a write past the end of the file.
GzChunk(c) == [kind |-> "gz", chunk |-> c]
GzTrailer(v) == [kind |-> "trailer", sum |-> v]
Hole == [kind |-> "hole"]

Gzip(bytes, v) == [i \in 1..(Len(bytes) + 1) |->
                     IF i <= Len(bytes) THEN GzChunk(bytes[i]) ELSE GzTrailer(v)]

RECURSIVE GoodPrefix(_, _)
\* Number of leading cells of data, from position i on, that inflate.
GoodPrefix(data, i) ==
  IF i > Len(data) THEN 0
  ELSE IF data[i].kind = "gz" /\ data[i].chunk[2] = i
            /\ (i = 1 \/ data[i].chunk[1] = data[1].chunk[1])
       THEN 1 + GoodPrefix(data, i + 1)
       ELSE 0

\* zlib.createGunzip() over the bytes read from the cache file: the chunks
\* that inflate, and whether the stream ended with a matching trailer.
Gunzip(data) ==
  LET n == GoodPrefix(data, 1)
      out == [i \in 1..n |-> data[i].chunk]
  IN [out |-> out,
      ok |-> /\ n >= 1
             /\ Len(data) = n + 1
             /\ data[n + 1] = GzTrailer(data[1].chunk[1])]

\* fs.write at the descriptor's own offset: pos is 1-based.
WriteAt(data, pos, cell) ==
  [i \in 1..(IF pos > Len(data) THEN pos ELSE Len(data)) |->
     IF i = pos THEN cell
     ELSE IF i <= Len(data) THEN data[i]
     ELSE Hole]

\* ------------------------------------------------------------------ state
NoLock == [exists |-> FALSE, age |-> 0, owner |-> 0]
NoFile == [exists |-> FALSE, data |-> <<>>]

NewRequest ==
  [pc |-> "new", waited |-> 0, due |-> FALSE, status |-> 0, body |-> <<>>,
   responded |-> FALSE, src |-> "none", ver |-> 0, fed |-> 0, ended |-> FALSE,
   wpos |-> 0,
   \* history of the request, read by the properties only
   foundLock |-> FALSE, foundFile |-> FALSE, timedOut |-> FALSE, calls |-> {},
   madeLock |-> FALSE, fault |-> "none"]

InitDrive ==
  /\ lock = NoLock
  /\ file = NoFile
  /\ req = [r \in Requests |-> NewRequest]
  /\ remoteVer = 1
  /\ killed = FALSE

Bump(n) == IF n < AgeCap THEN n + 1 ELSE n

\* The process dies: every handler, timer and stream in it is gone, the
\* files on disk stay.
CrashAll(rq) ==
  [r \in Requests |->
     IF rq[r].pc \in {"new", "done"} THEN rq[r]
     ELSE [rq[r] EXCEPT !.pc = "dead", !.due = FALSE]]

\* ------------------------------------------------- waitForCacheFile.check
checkAt_StaleAtTimeout(waited, unitMs) ==
  IF ~lock.exists THEN "resolve"
  ELSE IF lock.age * unitMs >= TIMEOUT THEN "stale"
  ELSE IF waited * unitMs > TIMEOUT THEN "reject"
  ELSE "again"

\* Times are counted in units of unitMs milliseconds.
checkAt_NeverRejects(waited, unitMs) ==
  IF ~lock.exists THEN "resolve"
  ELSE IF lock.age * unitMs > TIMEOUT THEN "stale"
  ELSE "again"

checkAt(waited, unitMs) ==
  IF ~lock.exists THEN "resolve"
  ELSE IF lock.age * unitMs > TIMEOUT THEN "stale"
  ELSE IF waited * unitMs > TIMEOUT THEN "reject"
  ELSE "again"

check(waited) == checkAt(waited, TickMs)

\* CacheOrDownload without the cache check of line 836: the request always
\* goes on to create the lock and download.
CacheOrDownload_NoCacheCheck(r, rq, lockOk) ==
  IF lockOk
  THEN /\ lock' = [exists |-> TRUE, age |-> 0, owner |-> r]
       /\ req' = [req EXCEPT ![r] = [rq EXCEPT !.pc = "meta", !.madeLock = TRUE,
                                               !.calls = @ \cup {"meta"}]]
  ELSE /\ UNCHANGED lock
       /\ req' = [req EXCEPT ![r] = [rq EXCEPT !.pc = "done", !.status = 500,
                                               !.responded = TRUE, !.fault = "lock"]]

\* CacheOrDownload whose catch at line 847 logs the error but does not
\* return: the handler carries on to the metadata call.
CacheOrDownload_NoReturnOnLockError(r, rq, lockOk) ==
  IF file.exists
  THEN /\ req' = [req EXCEPT ![r] = [rq EXCEPT !.pc = "serving", !.src = "cache"]]
       /\ UNCHANGED lock
  ELSE IF lockOk
  THEN /\ lock' = [exists |-> TRUE, age |-> 0, owner |-> r]
       /\ req' = [req EXCEPT ![r] = [rq EXCEPT !.pc = "meta", !.madeLock = TRUE,
                                               !.calls = @ \cup {"meta"}]]
  ELSE /\ UNCHANGED lock
       /\ req' = [req EXCEPT ![r] = [rq EXCEPT !.pc = "meta", !.fault = "lock",
                                               !.calls = @ \cup {"meta"}]]

\* Lines 835-850: serve the cache file if it exists, else create the lock
\* marker and call the metadata operation; lockOk is whether writeFileSync
\* succeeds.
CacheOrDownload(r, rq, lockOk) ==
  IF file.exists
  THEN /\ req' = [req EXCEPT ![r] = [rq EXCEPT !.pc = "serving", !.src = "cache"]]
       /\ UNCHANGED lock
  ELSE IF lockOk
  THEN /\ lock' = [exists |-> TRUE, age |-> 0, owner |-> r]
       /\ req' = [req EXCEPT ![r] = [rq EXCEPT !.pc = "meta", !.madeLock = TRUE,
                                               !.calls = @ \cup {"meta"}]]
  ELSE /\ UNCHANGED lock
       /\ req' = [req EXCEPT ![r] = [rq EXCEPT !.pc = "done", !.status = 500,
                                               !.responded = TRUE, !.fault = "lock"]]

\* AfterCheck whose catch at line 829 answers the request with an error
\* instead of falling through.
AfterCheck_TimeoutFails(r, rq, outcome, lockOk) ==
  CASE outcome = "again" ->
         /\ req' = [req EXCEPT ![r] = [rq EXCEPT !.pc = "waiting", !.due = FALSE]]
         /\ UNCHANGED lock
    [] outcome = "resolve" ->
         /\ req' = [req EXCEPT ![r] = [rq EXCEPT !.pc = "serving", !.src = "cache",
                                                 !.due = FALSE, !.waited = 0]]
         /\ UNCHANGED lock
    [] outcome = "stale" ->
         /\ req' = [req EXCEPT ![r] = [rq EXCEPT !.pc = "serving", !.src = "cache",
                                                 !.due = FALSE, !.waited = 0]]
         /\ lock' = NoLock
    [] outcome = "reject" ->
         /\ req' = [req EXCEPT ![r] = [rq EXCEPT !.pc = "done", !.status = 500,
                                                 !.responded = TRUE, !.timedOut = TRUE,
                                                 !.due = FALSE, !.waited = 0]]
         /\ UNCHANGED lock

\* Lines 817-850 after check() has produced outcome: the continuation of
\* `await waitForCacheFile`, or the timer being armed again.
AfterCheck(r, rq, outcome, lockOk) ==
  CASE outcome = "again" ->
         /\ req' = [req EXCEPT ![r] = [rq EXCEPT !.pc = "waiting", !.due = FALSE]]
         /\ UNCHANGED lock
    [] outcome = "resolve" ->
         /\ req' = [req EXCEPT ![r] = [rq EXCEPT !.pc = "serving", !.src = "cache",
                                                 !.due = FALSE, !.waited = 0]]
         /\ UNCHANGED lock
    [] outcome = "stale" ->
         /\ req' = [req EXCEPT ![r] = [rq EXCEPT !.pc = "serving", !.src = "cache",
                                                 !.due = FALSE, !.waited = 0]]
         /\ lock' = NoLock
    [] outcome = "reject" ->
         CacheOrDownload(r, [rq EXCEPT !.timedOut = TRUE, !.due = FALSE, !.waited = 0],
                         lockOk)

\* A request arrives: lines 805-850 up to the first suspension.  Requests
\* are numbered in their order of arrival.
Arrive(r) ==
  /\ req[r].pc = "new"
  /\ \A q \in Requests : q < r => req[q].pc # "new"
  /\ \E lockOk \in BOOLEAN :
       LET rq == [req[r] EXCEPT !.foundLock = lock.exists, !.foundFile = file.exists]
       IN IF lock.exists
          THEN AfterCheck(r, rq, check(0), lockOk)
          ELSE CacheOrDownload(r, rq, lockOk)
  /\ UNCHANGED <<file, remoteVer, killed>>
  /\ UNCHANGED <<sheetVars, pureVars>>

\* The poll timer of a waiting request fires: check() runs again.
Poll(r) ==
  /\ req[r].pc = "waiting"
  /\ \E lockOk \in BOOLEAN :
       AfterCheck(r, req[r], check(req[r].waited), lockOk)
  /\ UNCHANGED <<file, remoteVer, killed>>
  /\ UNCHANGED <<sheetVars, pureVars>>

\* One tick passes.  The poll interval is no longer than a tick, so every
\* armed timer has fired since the last tick.
Tick ==
  /\ INTERVAL <= TickMs
  /\ \A r \in Requests : req[r].pc = "waiting" => ~req[r].due
  /\ lock' = IF lock.exists THEN [lock EXCEPT !.age = Bump(@)] ELSE lock
  /\ req' = [r \in Requests |->
               IF req[r].pc = "waiting"
               THEN [req[r] EXCEPT !.waited = Bump(@), !.due = TRUE]
               ELSE req[r]]
  /\ UNCHANGED <<file, remoteVer, killed>>
  /\ UNCHANGED <<sheetVars, pureVars>>

CatchBlock_KeepsLock(r, why) ==
  /\ UNCHANGED lock
  /\ req' = [req EXCEPT ![r] = [@ EXCEPT !.pc = "done", !.status = 500,
                                        !.responded = TRUE, !.fault = why]]

\* Lines 920-926: the catch block of the download.
CatchBlock(r, why) ==
  /\ lock' = NoLock
  /\ req' = [req EXCEPT ![r] = [@ EXCEPT !.pc = "done", !.status = 500,
                                        !.responded = TRUE, !.fault = why]]

\* Lines 858-873: the metadata call returns (or throws); the name is checked
\* and the content stream is requested.
MetaReturn(r) ==
  /\ req[r].pc = "meta"
  /\ \/ CatchBlock(r, "meta")
     \/ \E name \in Names :
          IF ~IsCsvName(name)
          THEN IF lock.exists
               THEN /\ lock' = NoLock
                    /\ req' = [req EXCEPT ![r] = [@ EXCEPT !.pc = "done", !.status = 400,
                                                          !.responded = TRUE,
                                                          !.fault = "name"]]
               ELSE CatchBlock(r, "name")   \* unlinkSync throws ENOENT
          ELSE /\ req' = [req EXCEPT ![r] = [@ EXCEPT !.pc = "open",
                                                     !.calls = @ \cup {"content"}]]
               /\ UNCHANGED lock
  /\ UNCHANGED <<file, remoteVer, killed>>
  /\ UNCHANGED <<sheetVars, pureVars>>

\* Lines 870-919: the content stream is opened (or the call throws); the tee
\* is set up and createWriteStream creates or truncates the cache file.
OpenReturn(r) ==
  /\ req[r].pc = "open"
  /\ \/ /\ CatchBlock(r, "open")
        /\ UNCHANGED file
     \/ /\ req' = [req EXCEPT ![r] = [@ EXCEPT !.pc = "streaming", !.src = "remote",
                                              !.ver = remoteVer]]
        /\ file' = [exists |-> TRUE, data |-> <<>>]
        /\ UNCHANGED lock
  /\ UNCHANGED <<remoteVer, killed>>
  /\ UNCHANGED <<sheetVars, pureVars>>

\* Lines 881-884: driveStream 'data'.  The chunk goes to the response and
\* into the disk branch.
Data(r) ==
  /\ req[r].pc = "streaming"
  /\ ~req[r].ended
  /\ req[r].fed < ChunkCount
  /\ req' = [req EXCEPT ![r] = [@ EXCEPT !.fed = @ + 1, !.status = 200,
                                        !.body = Append(@, Chunk(req[r].ver, req[r].fed + 1))]]
  /\ UNCHANGED <<lock, file, remoteVer, killed>>
  /\ UNCHANGED <<sheetVars, pureVars>>

End_RemovesLock(r) ==
  /\ req[r].pc = "streaming"
  /\ ~req[r].ended
  /\ req[r].fed = ChunkCount
  /\ req' = [req EXCEPT ![r] = [@ EXCEPT !.ended = TRUE, !.status = 200,
                                        !.responded = TRUE]]
  /\ lock' = NoLock
  /\ UNCHANGED <<file, remoteVer, killed>>
  /\ UNCHANGED <<sheetVars, pureVars>>

\* Lines 885-888: driveStream 'end'.  The response ends; the disk branch
\* still has to flush.
End(r) ==
  /\ req[r].pc = "streaming"
  /\ ~req[r].ended
  /\ req[r].fed = ChunkCount
  /\ req' = [req EXCEPT ![r] = [@ EXCEPT !.ended = TRUE, !.status = 200,
                                        !.responded = TRUE]]
  /\ UNCHANGED <<lock, file, remoteVer, killed>>
  /\ UNCHANGED <<sheetVars, pureVars>>

\* Line 904: the disk branch writes one compressed chunk at the offset of
\* this request's own file descriptor.
DiskWrite(r) ==
  /\ req[r].pc = "streaming"
  /\ req[r].wpos < req[r].fed
  /\ file' = [file EXCEPT !.data = WriteAt(@, req[r].wpos + 1,
                                           GzChunk(Chunk(req[r].ver, req[r].wpos + 1)))]
  /\ req' = [req EXCEPT ![r].wpos = @ + 1]
  /\ UNCHANGED <<lock, remoteVer, killed>>
  /\ UNCHANGED <<sheetVars, pureVars>>

\* Lines 904-915: gzip writes its trailer, the write stream finishes and the
\* 'finish' handler queues the removal of the lock marker.
DiskFinish(r) ==
  /\ req[r].pc = "streaming"
  /\ req[r].ended
  /\ req[r].wpos = ChunkCount
  /\ file' = [file EXCEPT !.data = WriteAt(@, ChunkCount + 1, GzTrailer(req[r].ver))]
  /\ req' = [req EXCEPT ![r] = [@ EXCEPT !.wpos = @ + 1,
                                        !.pc = IF lock.exists THEN "unlinking" ELSE "done"]]
  /\ UNCHANGED <<lock, remoteVer, killed>>
  /\ UNCHANGED <<sheetVars, pureVars>>

\* Line 910: the queued fs.unlink of the lock marker runs.
UnlinkDone(r) ==
  /\ req[r].pc = "unlinking"
  /\ lock' = NoLock
  /\ req' = [req EXCEPT ![r].pc = "done"]
  /\ UNCHANGED <<file, remoteVer, killed>>
  /\ UNCHANGED <<sheetVars, pureVars>>

\* Lines 889-899: driveStream 'error'.  Both branches are destroyed with the
\* error, the lock removal is queued and the response is ended.  destroy(err)
\* emits 'error' on the PassThrough streams, which have no 'error' listener:
\* the process dies on the next tick, with the queued unlink done or not.
StreamError(r) ==
  /\ req[r].pc = "streaming"
  /\ ~req[r].ended
  /\ \E unlinked \in BOOLEAN :
       lock' = IF lock.exists /\ unlinked THEN NoLock ELSE lock
  /\ req' = CrashAll([req EXCEPT ![r] = [@ EXCEPT !.responded = TRUE, !.fault = "stream",
                        !.status = IF req[r].fed = 0 THEN 500 ELSE 200]])
  /\ UNCHANGED <<file, remoteVer, killed>>
  /\ UNCHANGED <<sheetVars, pureVars>>

\* Lines 824-826 and 839-841: createReadStream(cacheFilePath) piped through
\* gunzip into the response.  Neither stream has an 'error' listener: a
\* missing file or a truncated gzip stream kills the process, after the
\* chunks that did inflate have been sent.
Serve(r) ==
  /\ req[r].pc = "serving"
  /\ IF ~file.exists
     THEN req' = CrashAll(req)
     ELSE LET g == Gunzip(file.data)
              rq == [req[r] EXCEPT !.body = g.out,
                                   !.status = IF g.ok \/ Len(g.out) > 0 THEN 200 ELSE 0]
          IN IF g.ok
             THEN req' = [req EXCEPT ![r] = [rq EXCEPT !.pc = "done", !.responded = TRUE]]
             ELSE req' = CrashAll([req EXCEPT ![r] = rq])
  /\ UNCHANGED <<lock, file, remoteVer, killed>>
  /\ UNCHANGED <<sheetVars, pureVars>>

\* The process is killed from outside while requests are in progress.
Crash ==
  /\ \E r \in Requests : req[r].pc \notin {"new", "done", "dead"}
  /\ req' = CrashAll(req)
  /\ killed' = TRUE
  /\ UNCHANGED <<lock, file, remoteVer>>
  /\ UNCHANGED <<sheetVars, pureVars>>

\* The remote file gets new content.
RemoteChange ==
  /\ remoteVer < MaxVer
  /\ remoteVer' = remoteVer + 1
  /\ UNCHANGED <<lock, file, req, killed>>
  /\ UNCHANGED <<sheetVars, pureVars>>

\* ================================================================ CSV side
\* ------------------------------------------------------- numbers and cells
\* A JavaScript number: an integer or NaN.
Num(v) == [nan |-> FALSE, val |-> v]
NaN == [nan |-> TRUE, val |-> 0]

\* a > n for a number a and an integer n: false when a is NaN.
Gt(a, n) == ~a.nan /\ a.val > n

\* Cells are strings, as sequences of characters.
EmptyCell == <<>>
NA == <<"#", "N", "/", "A">>
REF == <<"#", "R", "E", "F", "!">>
Cells == {EmptyCell, <<"a">>, NA, REF}

RowsUpTo(n) == UNION {[1..k -> Cells] : k \in 0..n}
GridsUpTo(m, n) == UNION {[1..k -> RowsUpTo(n)] : k \in 0..m}

\* Array.prototype.slice(start) for a number start: NaN counts as 0, a
\* negative start counts from the end.  Sequences are 1-based, start is not.
slice(arr, start) ==
  LET len == Len(arr)
      rel == IF start.nan THEN 0 ELSE start.val
      k == IF rel < 0 THEN (IF len + rel > 0 THEN len + rel ELSE 0)
           ELSE (IF rel < len THEN rel ELSE len)
  IN [i \in 1..(len - k) |-> arr[k + i]]

\* row.slice(0, colCount) followed by the push('') loop.
padded(row, colCount) ==
  [j \in 1..colCount |-> IF j <= Len(row) THEN row[j] ELSE EmptyCell]

RECURSIVE Join(_, _)
Join(parts, sep) ==
  IF Len(parts) = 0 THEN <<>>
  ELSE IF Len(parts) = 1 THEN parts[1]
  ELSE parts[1] \o sep \o Join(Tail(parts), sep)

\* --------------------------------------------------------------- toCsvLine
\* cell.replace(/\r\n/g, '\n')
RECURSIVE replaceCrLf(_)
replaceCrLf(s) ==
  IF Len(s) = 0 THEN <<>>
  ELSE IF Len(s) >= 2 /\ s[1] = "\r" /\ s[2] = "\n"
       THEN <<"\n">> \o replaceCrLf(Tail(Tail(s)))
       ELSE <<s[1]>> \o replaceCrLf(Tail(s))

\* .replace(/\r/g, '\n')
replaceCr(s) == [i \in 1..Len(s) |-> IF s[i] = "\r" THEN "\n" ELSE s[i]]

RECURSIVE doubleQuotes_Kept(_)
doubleQuotes_Kept(s) ==
  IF Len(s) = 0 THEN <<>>
  ELSE <<s[1]>> \o doubleQuotes_Kept(Tail(s))

\* .replace(/"/g, '""')
RECURSIVE doubleQuotes(_)
doubleQuotes(s) ==
  IF Len(s) = 0 THEN <<>>
  ELSE (IF s[1] = "\"" THEN <<"\"", "\"">> ELSE <<s[1]>>) \o doubleQuotes(Tail(s))

\* A cell that is null or undefined.
NullCell == <<"(null)">>

csvCell_QuotesOnBlank(val) ==
  LET cell == IF val = NullCell THEN <<>> ELSE val
      normalized == replaceCr(replaceCrLf(cell))
      escaped == doubleQuotes(normalized)
  IN IF \E i \in 1..Len(escaped) : escaped[i] \in {"\"", "\n", ",", " "}
     THEN <<"\"">> \o escaped \o <<"\"">>
     ELSE escaped

csvCell(val) ==
  LET cell == IF val = NullCell THEN <<>> ELSE val
      normalized == replaceCr(replaceCrLf(cell))
      escaped == doubleQuotes(normalized)
  IN IF \E i \in 1..Len(escaped) : escaped[i] \in {"\"", "\n", ","}
     THEN <<"\"">> \o escaped \o <<"\"">>
     ELSE escaped

toCsvLine(rowArray) ==
  Join([i \in 1..Len(rowArray) |-> csvCell(rowArray[i])], <<",">>)

csvContent_TrailingNewline(rows) ==
  Join([i \in 1..Len(rows) |-> toCsvLine(rows[i])], <<"\n">>) \o
    (IF Len(rows) > 0 THEN <<"\n">> ELSE <<>>)

\* rows.map(toCsvLine).join('\n')
csvContent(rows) ==
  Join([i \in 1..Len(rows) |-> toCsvLine(rows[i])], <<"\n">>)

\* --------------------------------------------------------------- responses
NoMsg == [text |-> "", headerRow |-> NaN, lo |-> 0, hi |-> 0, tabIndex |-> 0, tabs |-> 0]

\* res.type('text/csv').send(csvContent) of a grid.
CsvResponse(grid) ==
  [status |-> 200, type |-> "text/csv", grid |-> grid, body |-> csvContent(grid),
   msg |-> NoMsg]

\* res.type('text/csv'); res.send('')
EmptyCsv ==
  [status |-> 200, type |-> "text/csv", grid |-> <<>>, body |-> <<>>, msg |-> NoMsg]

\* res.status(code).send(message)
ErrorResponse(code, msg) ==
  [status |-> code, type |-> "text/html", grid |-> <<>>, body |-> <<>>, msg |-> msg]

\* `headerRow=${headerRow} is out of range (1..${rows.length}).`
OutOfRange(headerRow, n) ==
  [NoMsg EXCEPT !.text = "headerRow is out of range", !.headerRow = headerRow,
                !.lo = 1, !.hi = n]

\* ---------------------------------------------------- removeInvalidHeaders
\* The loop over the header: the indices (1-based here) whose cell is none
\* of '', '#N/A', '#REF!', in ascending order.
RECURSIVE indicesToKeep_KeepsRef(_, _)
indicesToKeep_KeepsRef(header, i) ==
  IF i > Len(header) THEN <<>>
  ELSE (IF header[i] # EmptyCell /\ header[i] # NA
        THEN <<i>> ELSE <<>>) \o indicesToKeep_KeepsRef(header, i + 1)

RECURSIVE indicesToKeep(_, _)
indicesToKeep(header, i) ==
  IF i > Len(header) THEN <<>>
  ELSE (IF header[i] # EmptyCell /\ header[i] # NA /\ header[i] # REF
        THEN <<i>> ELSE <<>>) \o indicesToKeep(header, i + 1)

removeInvalidHeaders(rows) ==
  IF Len(rows) = 0 THEN rows
  ELSE LET keep == indicesToKeep(rows[1], 1)
       IN [r \in 1..Len(rows) |->
             [k \in 1..Len(keep) |->
                IF keep[k] <= Len(rows[r]) THEN rows[r][keep[k]] ELSE EmptyCell]]

\* ----------------------------------------------------------------- sendCsv
sendCsv_ColCountFromFirstRow(rows, headerRow, allowNullableHeaders) ==
  IF Len(rows) = 0 THEN EmptyCsv
  ELSE IF Gt(headerRow, Len(rows))
  THEN ErrorResponse(400, OutOfRange(headerRow, Len(rows)))
  ELSE LET headerIndex == IF headerRow.nan THEN NaN ELSE Num(headerRow.val - 1)
           slicedRows == slice(rows, headerIndex)
       IN IF Len(slicedRows) = 0 THEN EmptyCsv
          ELSE LET colCount == Len(rows[1])
                   normalizedRows ==
                     [i \in 1..Len(slicedRows) |-> padded(slicedRows[i], colCount)]
               IN CsvResponse(IF ~allowNullableHeaders
                              THEN removeInvalidHeaders(normalizedRows)
                              ELSE normalizedRows)

sendCsv_NoRangeCheck(rows, headerRow, allowNullableHeaders) ==
  IF Len(rows) = 0 THEN EmptyCsv
  ELSE LET headerIndex == IF headerRow.nan THEN NaN ELSE Num(headerRow.val - 1)
           slicedRows == slice(rows, headerIndex)
       IN IF Len(slicedRows) = 0 THEN EmptyCsv
          ELSE LET colCount == Len(slicedRows[1])
                   normalizedRows ==
                     [i \in 1..Len(slicedRows) |-> padded(slicedRows[i], colCount)]
               IN CsvResponse(IF ~allowNullableHeaders
                              THEN removeInvalidHeaders(normalizedRows)
                              ELSE normalizedRows)

sendCsv(rows, headerRow, allowNullableHeaders) ==
  IF Len(rows) = 0 THEN EmptyCsv
  ELSE IF Gt(headerRow, Len(rows))
  THEN ErrorResponse(400, OutOfRange(headerRow, Len(rows)))
  ELSE LET headerIndex == IF headerRow.nan THEN NaN ELSE Num(headerRow.val - 1)
           slicedRows == slice(rows, headerIndex)
       IN IF Len(slicedRows) = 0 THEN EmptyCsv
          ELSE LET colCount == Len(slicedRows[1])
                   normalizedRows ==
                     [i \in 1..Len(slicedRows) |-> padded(slicedRows[i], colCount)]
               IN CsvResponse(IF ~allowNullableHeaders
                              THEN removeInvalidHeaders(normalizedRows)
                              ELSE normalizedRows)

\* -------------------------------------------------------------- sendRawCsv
Letters ==
  <<"A", "B", "C", "D", "E", "F", "G", "H", "I", "J", "K", "L", "M",
    "N", "O", "P", "Q", "R", "S", "T", "U", "V", "W", "X", "Y", "Z">>

\* String.fromCharCode(code) for the codes of the capital letters.
fromCharCode(code) == Letters[code - 64]

\* The while loop of getColumnName.
RECURSIVE columnLoop(_, _)
columnLoop(n, result) ==
  IF n > 0
  THEN LET rem == (n - 1) % 26
       IN columnLoop((n - 1) \div 26, <<fromCharCode(65 + rem)>> \o result)
  ELSE result

getColumnName_NoIncrement(n) == columnLoop(n, <<>>)

getColumnName(n) == columnLoop(n + 1, <<>>)

\* The forEach that finds the longest row.
RECURSIVE maxLength(_, _)
maxLength(rows, maxCols) ==
  IF Len(rows) = 0 THEN maxCols
  ELSE maxLength(Tail(rows), IF Len(rows[1]) > maxCols THEN Len(rows[1]) ELSE maxCols)

sendRawCsv_NoEmptyCheck(rows) ==
  LET maxCols == maxLength(rows, 0)
      headers == [i \in 1..maxCols |-> getColumnName(i - 1)]
  IN CsvResponse(<<headers>> \o rows)

sendRawCsv_HeaderFromFirstRow(rows) ==
  IF Len(rows) = 0 THEN EmptyCsv
  ELSE LET maxCols == Len(rows[1])
           headers == [i \in 1..maxCols |-> getColumnName(i - 1)]
       IN CsvResponse(<<headers>> \o rows)

sendRawCsv(rows) ==
  IF Len(rows) = 0 THEN EmptyCsv
  ELSE LET maxCols == maxLength(rows, 0)
           headers == [i \in 1..maxCols |-> getColumnName(i - 1)]
       IN CsvResponse(<<headers>> \o rows)

\* ============================================================= sheet route
\* ----------------------------------------------------------------- strings
\* A query parameter that is not in the URL.
Absent == <<"(absent)">>

One == <<"1">>

\* `${value}` of a query parameter.
paramText(value) ==
  IF value = Absent THEN <<"u", "n", "d", "e", "f", "i", "n", "e", "d">> ELSE value

\* `${flag}` of a boolean.
boolText(flag) == IF flag THEN <<"t", "r", "u", "e">> ELSE <<"f", "a", "l", "s", "e">>

Digits == <<"0", "1", "2", "3", "4", "5", "6", "7", "8", "9">>

IsDigit(c) == \E d \in 1..10 : Digits[d] = c
DigitVal(c) == (CHOOSE d \in 1..10 : Digits[d] = c) - 1

\* The digits at the front of s, read as a decimal number continuing acc.
RECURSIVE readDigits(_, _)
readDigits(s, acc) ==
  IF Len(s) > 0 /\ IsDigit(s[1])
  THEN readDigits(Tail(s), 10 * acc + DigitVal(s[1]))
  ELSE acc

RECURSIVE trimStart(_)
trimStart(s) == IF Len(s) > 0 /\ s[1] = " " THEN trimStart(Tail(s)) ELSE s

\* parseInt(text, 10): leading blanks, an optional sign, then digits; NaN
\* when no digit follows.
parseInt(text) ==
  LET t == trimStart(text)
      signed == Len(t) > 0 /\ t[1] \in {"-", "+"}
      body == IF signed THEN Tail(t) ELSE t
  IN IF Len(body) = 0 \/ ~IsDigit(body[1]) THEN NaN
     ELSE IF signed /\ t[1] = "-" THEN Num(0 - readDigits(body, 0))
     ELSE Num(readDigits(body, 0))

\* The decimal digits of a natural number.
RECURSIVE natText(_)
natText(n) ==
  IF n < 10 THEN <<Digits[n + 1]>> ELSE natText(n \div 10) \o <<Digits[(n % 10) + 1]>>

\* `${number}`
numText(a) ==
  IF a.nan THEN <<"N", "a", "N">>
  ELSE IF a.val < 0 THEN <<"-">> \o natText(0 - a.val)
  ELSE natText(a.val)

\* ----------------------------------------------------------------- request
\* headerRowParam ? parseInt(headerRowParam, 10) : 1
headerRowOf(q) ==
  IF q.headerRow = Absent \/ q.headerRow = <<>> THEN Num(1) ELSE parseInt(q.headerRow)

isRaw(q) == q.raw = One
usesTabIndex(q) == q.useTabIndex = One
allowsNullableHeaders(q) == q.allowNulableHeaders = One

Sep == <<":", ":">>

\* Lines 953-960.  The literal pieces of the template are single symbols.
cacheKey(q) ==
  IF isRaw(q)
  THEN q.spreadsheetId \o Sep \o q.sheetParam \o Sep \o <<"raw">> \o Sep
       \o <<"useTabIndex=">> \o boolText(usesTabIndex(q))
  ELSE q.spreadsheetId \o Sep \o q.sheetParam \o Sep
       \o <<"headerRow=">> \o numText(headerRowOf(q)) \o Sep
       \o <<"allowNullableHeaders=">> \o paramText(q.allowNulableHeaders) \o Sep
       \o <<"useTabIndex=">> \o boolText(usesTabIndex(q))

Query(id, sel, raw, idx, hdr, allow) ==
  [spreadsheetId |-> id, sheetParam |-> sel, raw |-> raw, useTabIndex |-> idx,
   headerRow |-> hdr, allowNulableHeaders |-> allow]

respond_HeaderRowWins(q, rows) ==
  IF isRaw(q) /\ q.headerRow = Absent THEN sendRawCsv(rows)
  ELSE sendCsv(rows, headerRowOf(q), allowsNullableHeaders(q))

\* The response both paths end with: sendRawCsv or sendCsv of the rows.
respond(q, rows) ==
  IF isRaw(q) THEN sendRawCsv(rows)
  ELSE sendCsv(rows, headerRowOf(q), allowsNullableHeaders(q))

\* ------------------------------------------------------------------- state
SheetRequests == 1..MaxSheetReq
TtlTicks == CACHE_TTL_MS \div TickMs

\* The tabs of the remote spreadsheet, by title, in tab order.
Titles == << <<"t">> >>

\* The rows values.get returns for the tab at a version of the sheet: an
\* empty sheet at even versions (res.data.values is undefined), else a
\* ragged grid whose first row has an empty header cell.
RemoteRows(ver) ==
  IF ver % 2 = 0 THEN <<>>
  ELSE << <<(<<"a">>), EmptyCell>>, [j \in 1..(ver + 2) |-> <<"a">>] >>

SpreadsheetId == <<"S">>

\* The requests that arrive, as the URL gives them.
Queries ==
  { Query(SpreadsheetId, <<"t">>, Absent, Absent, Absent, Absent),
    Query(SpreadsheetId, <<"t">>, Absent, Absent, <<"3">>, Absent),
    Query(SpreadsheetId, <<"t">>, Absent, Absent, <<"2">>, One),
    Query(SpreadsheetId, <<"t">>, One, Absent, <<"3">>, Absent),
    Query(SpreadsheetId, <<"0">>, Absent, One, Absent, Absent),
    Query(SpreadsheetId, <<"1">>, Absent, One, Absent, Absent),
    Query(SpreadsheetId, <<"x">>, Absent, One, Absent, Absent),
    Query(SpreadsheetId, <<"-", "1">>, Absent, One, Absent, Absent),
    Query(SpreadsheetId, <<"t">>, Absent, Absent, <<"x">>, Absent),
    Query(SpreadsheetId, <<"t">>, Absent, Absent, <<"0">>, Absent),
    \* /S/t?allowNulableHeaders=undefined::raw and
    \* /S/t::headerRow=1::allowNullableHeaders=undefined?raw=1
    Query(SpreadsheetId, <<"t">>, Absent, Absent, Absent,
          paramText(Absent) \o Sep \o <<"raw">>),
    Query(SpreadsheetId,
          <<"t">> \o Sep \o <<"headerRow=", "1">> \o Sep
            \o <<"allowNullableHeaders=">> \o paramText(Absent),
          One, Absent, Absent, Absent) }

NoQuery == Query(<<>>, <<>>, Absent, Absent, Absent, Absent)

NoResponse == [status |-> 0, type |-> "", grid |-> <<>>, body |-> <<>>, msg |-> NoMsg]

Msg(text) == [NoMsg EXCEPT !.text = text]

\* 'Error fetching sheet data: ' + `Invalid tab index: ${tabIndex}. There are
\* ${sheetsArray.length} tabs.`
InvalidTabIndex(tabIndex, n) ==
  [NoMsg EXCEPT !.text = "Error fetching sheet data: Invalid tab index",
                !.tabIndex = tabIndex, !.tabs = n]

NewSheetRequest ==
  [pc |-> "new", q |-> NoQuery, key |-> <<>>, tabIndex |-> 0, title |-> <<>>,
   \* sheetsArray.length once spreadsheets.get has returned, -1 before
   tabs |-> -1,
   \* cachedResult of a hit, or the rows the fetch returned
   rows |-> <<>>,
   res |-> NoResponse,
   \* history of the request, read by the properties only
   src |-> "none", calls |-> <<>>, since |-> 0, sincePut |-> 0]

InitSheet ==
  /\ memoryCache = <<>>
  /\ sreq = [r \in SheetRequests |-> NewSheetRequest]
  /\ sheet = 1

\* ------------------------------------------------------------- memoryCache
\* memoryCache.get(key): the rows of a live entry, or null.
get_AlwaysMiss(cache, key) ==
  [hit |-> FALSE, rows |-> <<>>]

get(cache, key) ==
  IF key \in DOMAIN cache
  THEN [hit |-> TRUE, rows |-> cache[key].rows]
  ELSE [hit |-> FALSE, rows |-> <<>>]

put_KeepsEntry(cache, key, rows) ==
  [k \in DOMAIN cache \cup {key} |->
     IF k \in DOMAIN cache THEN cache[k] ELSE [rows |-> rows, age |-> 0]]

\* memoryCache.put(key, rows, CACHE_TTL_MS, callback)
put(cache, key, rows) ==
  [k \in DOMAIN cache \cup {key} |->
     IF k = key THEN [rows |-> rows, age |-> 0] ELSE cache[k]]

\* res.status(...).send(...) or sendCsv/sendRawCsv: the handler is over.
Finish(r, rq, response) ==
  sreq' = [sreq EXCEPT ![r] = [rq EXCEPT !.pc = "done", !.res = response]]

\* --------------------------------------------------------------- handler
\* Lines 940-987: from the arrival of the request to its first await.
SArrive(r) ==
  /\ sreq[r].pc = "new"
  /\ \A p \in SheetRequests : p < r => sreq[p].pc # "new"
  /\ \E q \in Queries :
       LET key == cacheKey(q)
           cachedResult == get(memoryCache, key)
           rq == [sreq[r] EXCEPT !.q = q, !.key = key]
       IN IF q.spreadsheetId = <<>> \/ q.sheetParam = <<>>
          THEN Finish(r, rq, ErrorResponse(400, Msg("Missing spreadsheetId or sheetParam.")))
          ELSE IF cachedResult.hit
          THEN Finish(r, [rq EXCEPT !.src = "cache", !.rows = cachedResult.rows],
                      respond(q, cachedResult.rows))
          ELSE IF usesTabIndex(q)
          THEN LET tabIndex == parseInt(q.sheetParam)
               IN IF tabIndex.nan
                  THEN Finish(r, rq, ErrorResponse(400, Msg("Invalid tab index")))
                  ELSE sreq' = [sreq EXCEPT ![r] =
                                  [rq EXCEPT !.pc = "meta", !.tabIndex = tabIndex.val,
                                             !.calls = Append(@, "spreadsheets.get")]]
          ELSE sreq' = [sreq EXCEPT ![r] =
                          [rq EXCEPT !.pc = "values", !.title = q.sheetParam,
                                     !.calls = Append(@, "values.get")]]
  /\ UNCHANGED <<memoryCache, sheet>>
  /\ UNCHANGED <<driveVars, pureVars>>

\* Lines 604-612 and the catch at 988-991: spreadsheets.get returns or
\* throws; the tab index is checked and values.get is called.
SMetaReturn_OffByOne(r) ==
  /\ sreq[r].pc = "meta"
  /\ \E ok \in BOOLEAN :
       LET rq == [sreq[r] EXCEPT !.tabs = Len(Titles)]
       IN IF ~ok
          THEN Finish(r, sreq[r], ErrorResponse(500, Msg("Error fetching sheet data")))
          ELSE IF rq.tabIndex < 0 \/ rq.tabIndex > Len(Titles)
          THEN Finish(r, rq, ErrorResponse(500, InvalidTabIndex(rq.tabIndex, Len(Titles))))
          ELSE IF rq.tabIndex = Len(Titles)
          THEN Finish(r, rq, ErrorResponse(500, Msg("Error fetching sheet data")))
          ELSE sreq' = [sreq EXCEPT ![r] =
                          [rq EXCEPT !.pc = "values", !.title = Titles[rq.tabIndex + 1],
                                     !.calls = Append(@, "values.get")]]
  /\ UNCHANGED <<memoryCache, sheet>>
  /\ UNCHANGED <<driveVars, pureVars>>

SMetaReturn(r) ==
  /\ sreq[r].pc = "meta"
  /\ \E ok \in BOOLEAN :
       LET rq == [sreq[r] EXCEPT !.tabs = Len(Titles)]
       IN IF ~ok
          THEN Finish(r, sreq[r], ErrorResponse(500, Msg("Error fetching sheet data")))
          ELSE IF rq.tabIndex < 0 \/ rq.tabIndex >= Len(Titles)
          THEN Finish(r, rq, ErrorResponse(500, InvalidTabIndex(rq.tabIndex, Len(Titles))))
          ELSE sreq' = [sreq EXCEPT ![r] =
                          [rq EXCEPT !.pc = "values", !.title = Titles[rq.tabIndex + 1],
                                     !.calls = Append(@, "values.get")]]
  /\ UNCHANGED <<memoryCache, sheet>>
  /\ UNCHANGED <<driveVars, pureVars>>

\* Lines 988-1011: the rest of the handler once the fetch has returned rows
\* or thrown.
afterFetch_CachesOnError(r, ok, rows) ==
  IF ~ok
  THEN /\ Finish(r, sreq[r], ErrorResponse(500, Msg("Error fetching sheet data")))
       /\ memoryCache' = put(memoryCache, sreq[r].key, <<>>)
  ELSE /\ memoryCache' = put(memoryCache, sreq[r].key, rows)
       /\ Finish(r, [sreq[r] EXCEPT !.src = "remote", !.rows = rows],
                 respond(sreq[r].q, rows))

afterFetch(r, ok, rows) ==
  IF ~ok
  THEN /\ Finish(r, sreq[r], ErrorResponse(500, Msg("Error fetching sheet data")))
       /\ UNCHANGED memoryCache
  ELSE /\ memoryCache' = put(memoryCache, sreq[r].key, rows)
       /\ Finish(r, [sreq[r] EXCEPT !.src = "remote", !.rows = rows],
                 respond(sreq[r].q, rows))

\* Lines 583-594: values.get returns the rows of the tab, or throws (always
\* when the spreadsheet has no tab of that title).
SValuesReturn(r) ==
  /\ sreq[r].pc = "values"
  /\ \E ok \in BOOLEAN :
       afterFetch(r, ok /\ (\E t \in 1..Len(Titles) : Titles[t] = sreq[r].title),
                  RemoteRows(sheet))
  /\ UNCHANGED sheet
  /\ UNCHANGED <<driveVars, pureVars>>

\* The timer of an entry fires after CACHE_TTL_MS: the entry is dropped.
Expire(key) ==
  /\ key \in DOMAIN memoryCache
  /\ memoryCache[key].age * TickMs >= CACHE_TTL_MS
  /\ memoryCache' = [k \in DOMAIN memoryCache \ {key} |-> memoryCache[k]]
  /\ UNCHANGED <<sreq, sheet>>
  /\ UNCHANGED <<driveVars, pureVars>>

\* Ticks since an event, counted up to one past the time to live.
Later(n) == IF n <= TtlTicks THEN n + 1 ELSE n

\* One tick passes on the sheet side; every timer that was due has fired.
SheetTick ==
  /\ \A k \in DOMAIN memoryCache : memoryCache[k].age * TickMs < CACHE_TTL_MS
  /\ memoryCache' = [k \in DOMAIN memoryCache |-> [memoryCache[k] EXCEPT !.age = @ + 1]]
  /\ sreq' = [r \in SheetRequests |->
                [sreq[r] EXCEPT
                   !.since = IF sreq[r].pc # "new" THEN Later(@) ELSE @,
                   !.sincePut = IF sreq[r].src = "remote" THEN Later(@) ELSE @]]
  /\ UNCHANGED sheet
  /\ UNCHANGED <<driveVars, pureVars>>

\* The remote sheet is edited.
SheetChange ==
  /\ sheet < MaxVer
  /\ sheet' = sheet + 1
  /\ UNCHANGED <<memoryCache, sreq>>
  /\ UNCHANGED <<driveVars, pureVars>>

\* ============================================== pure functions under check
NoInput == [rows |-> <<>>]
NoOutput == [fn |-> "none"]

InitPure ==
  /\ arg = NoInput
  /\ ret = NoOutput

\* The header rows asked for: NaN, zero, negative, in range and past the end.
HeaderRows == {NaN} \cup {Num(k) : k \in (0 - 1)..(MaxRows + 1)}

\* Every grid of at most MaxRows rows of at most MaxCols cells each.
InitCsv ==
  /\ arg \in [rows : GridsUpTo(MaxRows, MaxCols)]
  /\ ret = NoOutput
  /\ InitDrive
  /\ InitSheet

ApplySendCsv ==
  /\ ret = NoOutput
  /\ \E headerRow \in HeaderRows, allowNullableHeaders \in BOOLEAN :
       ret' = [fn |-> "sendCsv", headerRow |-> headerRow,
               allowNullableHeaders |-> allowNullableHeaders,
               res |-> sendCsv(arg.rows, headerRow, allowNullableHeaders)]
  /\ UNCHANGED arg
  /\ UNCHANGED <<driveVars, sheetVars>>

ApplySendRawCsv ==
  /\ ret = NoOutput
  /\ ret' = [fn |-> "sendRawCsv", res |-> sendRawCsv(arg.rows)]
  /\ UNCHANGED arg
  /\ UNCHANGED <<driveVars, sheetVars>>

NextCsv ==
  \/ ApplySendCsv
  \/ ApplySendRawCsv

SpecCsv == InitCsv /\ [][NextCsv]_vars

\* Requests for the cache key: ids and tab selectors with and without "::"
\* inside, every flag absent, "1" or another text.
KeyQueries ==
  { Query(id, sel, raw, idx, hdr, allow) :
      id \in { <<"S">>, <<"S", ":", ":", "t">> },
      sel \in { <<"u">>, <<"t", ":", ":", "u">> },
      raw \in { Absent, One },
      idx \in { Absent, One },
      hdr \in { Absent, <<"1">>, <<"2">>, <<"x">> },
      allow \in { Absent, One, <<"0">> } }

InitKey ==
  /\ arg \in [q1 : KeyQueries, q2 : KeyQueries]
  /\ ret = NoOutput
  /\ InitDrive
  /\ InitSheet

ApplyCacheKey ==
  /\ ret = NoOutput
  /\ ret' = [fn |-> "cacheKey", k1 |-> cacheKey(arg.q1), k2 |-> cacheKey(arg.q2)]
  /\ UNCHANGED arg
  /\ UNCHANGED <<driveVars, sheetVars>>

NextKey == ApplyCacheKey

SpecKey == InitKey /\ [][NextKey]_vars

\* Requests in both output modes, with every kind of headerRow (absent, in
\* range, unparseable, past the last row) and allowNulableHeaders.
RawQueries ==
  { Query(SpreadsheetId, sel, raw, idx, hdr, allow) :
      sel \in { <<"t">>, <<"0">> },
      raw \in { Absent, One },
      idx \in { Absent, One },
      hdr \in { Absent, <<"1">>, <<"x">>, <<"9">> },
      allow \in { Absent, One } }

InitRaw ==
  /\ arg \in [q1 : RawQueries, q2 : RawQueries,
              rows : {RemoteRows(ver) : ver \in 1..MaxVer}]
  /\ ret = NoOutput
  /\ InitDrive
  /\ InitSheet

\* The cache key of two requests and their responses to the same rows.
ApplyRespond ==
  /\ ret = NoOutput
  /\ ret' = [fn |-> "respond",
             k1 |-> cacheKey(arg.q1), k2 |-> cacheKey(arg.q2),
             res1 |-> respond(arg.q1, arg.rows), res2 |-> respond(arg.q2, arg.rows)]
  /\ UNCHANGED arg
  /\ UNCHANGED <<driveVars, sheetVars>>

NextRaw == ApplyRespond

SpecRaw == InitRaw /\ [][NextRaw]_vars

\* Every text of at most n of the characters that matter to the encoder.
EncChars == {"a", " ", ",", "\"", "\n", "\r"}
TextsUpTo(n) == UNION {[1..k -> EncChars] : k \in 0..n}

InitCell ==
  /\ arg \in [cell : TextsUpTo(MaxCellLen) \cup {NullCell}]
  /\ ret = NoOutput
  /\ InitDrive
  /\ InitSheet

\* The map callback of toCsvLine, applied to one cell.
ApplyCsvCell ==
  /\ ret = NoOutput
  /\ ret' = [fn |-> "csvCell", text |-> csvCell(arg.cell)]
  /\ UNCHANGED arg
  /\ UNCHANGED <<driveVars, sheetVars>>

NextCell == ApplyCsvCell

SpecCell == InitCell /\ [][NextCell]_vars

\* Every grid of at most EncRows rows of at most EncCols cells, the cells
\* short texts of the characters that matter to the encoder, a CR-LF pair
\* or null.
GridChars == {"a", ",", "\"", "\n", "\r"}
GridCells ==
  UNION {[1..k -> GridChars] : k \in 0..GridCellLen} \cup {NullCell, <<"\r", "\n">>}
EncGrids ==
  UNION {[1..n -> UNION {[1..c -> GridCells] : c \in 0..EncCols}] : n \in 0..EncRows}

InitEnc ==
  /\ arg \in [grid : EncGrids]
  /\ ret = NoOutput
  /\ InitDrive
  /\ InitSheet

\* rows.map(toCsvLine).join('\n') of sendCsv and sendRawCsv.
ApplyCsvContent ==
  /\ ret = NoOutput
  /\ ret' = [fn |-> "csvContent", body |-> csvContent(arg.grid)]
  /\ UNCHANGED arg
  /\ UNCHANGED <<driveVars, sheetVars>>

NextEnc == ApplyCsvContent

SpecEnc == InitEnc /\ [][NextEnc]_vars

InitCol ==
  /\ arg \in [n : 0..MaxIndex]
  /\ ret = NoOutput
  /\ InitDrive
  /\ InitSheet

\* getColumnName(i) of the header of sendRawCsv.
ApplyGetColumnName ==
  /\ ret = NoOutput
  /\ ret' = [fn |-> "getColumnName", label |-> getColumnName(arg.n)]
  /\ UNCHANGED arg
  /\ UNCHANGED <<driveVars, sheetVars>>

NextCol == ApplyGetColumnName

SpecCol == InitCol /\ [][NextCol]_vars

\* ------------------------------------------------------- the sheet route
InitSheetRoute ==
  /\ InitSheet
  /\ InitDrive
  /\ InitPure

NextSheet ==
  \/ \E r \in SheetRequests : SArrive(r)
  \/ \E r \in SheetRequests : SMetaReturn(r)
  \/ \E r \in SheetRequests : SValuesReturn(r)
  \/ \E key \in DOMAIN memoryCache : Expire(key)
  \/ SheetTick
  \/ SheetChange

SpecSheet == InitSheetRoute /\ [][NextSheet]_vars

\* ================================== waitForCacheFile, interval by interval
\* One call of waitForCacheFile by the request Waiter, with time counted in
\* poll intervals and the timer firing on time.  The other requests do to
\* the lock marker whatever the code lets them do, at any moment.
Waiter == 1
TimeoutIntervals == TIMEOUT \div INTERVAL
WaitCap == TimeoutIntervals + 2

Older(n) == IF n < WaitCap THEN n + 1 ELSE n

\* Line 845 in another request: the lock marker is created, or written again
\* by a request that had timed out waiting for it.
LockWritten ==
  /\ \E o \in Requests \ {Waiter} : lock' = [exists |-> TRUE, age |-> 0, owner |-> o]
  /\ UNCHANGED <<file, req, remoteVer, killed>>
  /\ UNCHANGED <<sheetVars, pureVars>>

\* Lines 776, 865, 893, 910, 923 in another request: the lock marker is
\* removed.
LockUnlinked ==
  /\ lock.exists
  /\ lock' = NoLock
  /\ UNCHANGED <<file, req, remoteVer, killed>>
  /\ UNCHANGED <<sheetVars, pureVars>>

\* The outcome of one run of check(): the promise is settled, with the stale
\* lock removed, or the timer is armed again.
Settle(outcome) ==
  /\ req' = [req EXCEPT ![Waiter] =
               [@ EXCEPT !.due = FALSE,
                         !.timedOut = (outcome = "reject"),
                         !.pc = CASE outcome = "again" -> "waiting"
                                  [] outcome = "reject" -> "rejected"
                                  [] OTHER -> "resolved"]]
  /\ lock' = IF outcome = "stale" THEN NoLock ELSE lock

\* Lines 817-820 and 761-789: the request finds a lock marker and calls
\* waitForCacheFile, which runs check() at once.
WaitStart ==
  /\ req[Waiter].pc = "new"
  /\ lock.exists
  /\ Settle(checkAt(0, INTERVAL))
  /\ UNCHANGED <<file, remoteVer, killed>>
  /\ UNCHANGED <<sheetVars, pureVars>>

\* Line 786: the timer armed by setTimeout(check, interval) fires.
WaitCheck ==
  /\ req[Waiter].pc = "waiting"
  /\ req[Waiter].due
  /\ Settle(checkAt(req[Waiter].waited, INTERVAL))
  /\ UNCHANGED <<file, remoteVer, killed>>
  /\ UNCHANGED <<sheetVars, pureVars>>

\* One poll interval passes; the timer of the waiting request is due.
Interval ==
  /\ ~req[Waiter].due
  /\ lock' = IF lock.exists THEN [lock EXCEPT !.age = Older(@)] ELSE lock
  /\ req' = [req EXCEPT ![Waiter] =
               IF @.pc = "waiting" THEN [@ EXCEPT !.waited = Older(@), !.due = TRUE]
               ELSE @]
  /\ UNCHANGED <<file, remoteVer, killed>>
  /\ UNCHANGED <<sheetVars, pureVars>>

InitWait ==
  /\ InitDrive
  /\ InitSheet
  /\ InitPure

NextWait == LockWritten \/ LockUnlinked \/ WaitStart \/ WaitCheck \/ Interval

\* Node runs a timer that is due, and time does not stand still.
SpecWait ==
  InitWait /\ [][NextWait]_vars /\ WF_vars(WaitCheck) /\ WF_vars(Interval)

\* ------------------------------------------------------- the drive route
Init ==
  /\ InitDrive
  /\ InitSheet
  /\ InitPure

Next ==
  \/ \E r \in Requests : Arrive(r)
  \/ \E r \in Requests : Poll(r)
  \/ \E r \in Requests : MetaReturn(r)
  \/ \E r \in Requests : OpenReturn(r)
  \/ \E r \in Requests : Data(r)
  \/ \E r \in Requests : End(r)
  \/ \E r \in Requests : DiskWrite(r)
  \/ \E r \in Requests : DiskFinish(r)
  \/ \E r \in Requests : UnlinkDone(r)
  \/ \E r \in Requests : StreamError(r)
  \/ \E r \in Requests : Serve(r)
  \/ Crash
  \/ RemoteChange
  \/ Tick

Spec == Init /\ [][Next]_vars

\* The drive route with what Node and the remote service guarantee: a
\* handler, timer or stream callback that is due runs, every remote call
\* returns or throws, every remote stream goes on to its end or fails, and
\* time passes.
Fairness ==
  /\ \A r \in Requests :
       /\ WF_vars(Poll(r))
       /\ WF_vars(MetaReturn(r))
       /\ WF_vars(OpenReturn(r))
       /\ WF_vars(Data(r) \/ End(r) \/ StreamError(r))
       /\ WF_vars(DiskWrite(r))
       /\ WF_vars(DiskFinish(r))
       /\ WF_vars(UnlinkDone(r))
       /\ WF_vars(Serve(r))
  /\ WF_vars(Tick)

SpecLive == Init /\ [][Next]_vars /\ Fairness

\* ============================================================ properties
\* A download is in flight from the creation of its lock marker until its
\* disk write has ended.
InFlight(r) == req[r].pc \in {"meta", "open", "streaming"}

Finished(r) == req[r].pc \in {"done", "dead"}

FileComplete == file.exists /\ Gunzip(file.data).ok

\* C1: in every reachable state at most one download of the fileId is in
\* flight.
C1_SingleFlight == Cardinality({r \in Requests : InFlight(r)}) <= 1

\* C2: two concurrent first-time requests (the first finds neither lock nor
\* cache file, the second arrives while the first holds the lock; no remote
\* failure, no lock failure, no outside kill) make exactly one content
\* download and both receive the same, complete content.
FirstTimePair(r1, r2) ==
  /\ r1 # r2
  /\ ~killed
  /\ \A r \in Requests : req[r].fault = "none"
  /\ \A r \in Requests \ {r1, r2} : req[r].pc = "new"
  /\ ~req[r1].foundLock /\ ~req[r1].foundFile /\ req[r1].madeLock
  /\ req[r2].foundLock /\ ~req[r2].timedOut
  /\ Finished(r1) /\ Finished(r2)

C2_OneDownloadSameBytes ==
  \A r1, r2 \in Requests :
    FirstTimePair(r1, r2) =>
      /\ Cardinality({r \in Requests : "content" \in req[r].calls}) = 1
      /\ req[r1].responded /\ req[r2].responded
      /\ req[r1].status = 200 /\ req[r2].status = 200
      /\ req[r1].body = req[r2].body
      /\ \E v \in 1..MaxVer : req[r1].body = RemoteBytes(v)

\* C3: every response served from the cache file streams a completely
\* written blob: whenever a request reads the cache file to serve it, the
\* file exists and holds a complete gzip stream.
C3_ServesOnlyCompleteFile ==
  [][\A r \in Requests : Serve(r) /\ file.exists => FileComplete]_vars

\* The step of request r is an arrival or a poll whose check() has the given
\* outcome.
CheckStep(r, outcome) ==
  \/ Arrive(r) /\ lock.exists /\ check(0) = outcome
  \/ Poll(r) /\ check(req[r].waited) = outcome

\* The request starts a download of its own: it creates a new lock marker
\* and calls the remote metadata operation (or it fails to create the lock).
StartsDownload(r) ==
  \/ /\ req'[r].pc = "meta"
     /\ lock' = [exists |-> TRUE, age |-> 0, owner |-> r]
  \/ req'[r].fault = "lock"

\* C4: a request that finds the lock marker older than the staleness
\* threshold deletes it and starts a fresh download.
C4_StaleLockRedownloads ==
  [][\A r \in Requests : CheckStep(r, "stale") => StartsDownload(r)]_vars

\* C5: a waiting request that sees the lock gone serves from the cache if
\* the cache file is present and otherwise attempts its own download.
C5_LockGoneRechecksCache ==
  [][\A r \in Requests :
       CheckStep(r, "resolve") =>
         IF file.exists
         THEN req'[r].pc = "serving" /\ UNCHANGED lock
         ELSE StartsDownload(r)]_vars

C7_CachedServesFromDisk ==
  [][\A r \in Requests :
       /\ (Arrive(r) /\ file.exists /\ ~lock.exists) =>
            /\ req'[r].pc = "serving"
            /\ req'[r].calls = {} /\ ~req'[r].madeLock
            /\ UNCHANGED <<lock, file>>
       /\ (Serve(r) /\ req[r].foundFile /\ ~req[r].foundLock) =>
            /\ req'[r].body = Gunzip(file.data).out
            /\ (FileComplete => req'[r].pc = "done" /\ req'[r].status = 200
                                /\ Gzip(req'[r].body, req'[r].body[1][1]) = file.data)
            /\ req'[r].calls = {} /\ ~req'[r].madeLock
            /\ UNCHANGED <<lock, file>>]_vars

C7_Witness ==
  \E r \in Requests :
    /\ req[r].foundFile /\ ~req[r].foundLock
    /\ req[r].pc = "done" /\ req[r].status = 200
    /\ req[r].body \in {RemoteBytes(v) : v \in 1..MaxVer}

\* C8: once the cache file is completely written and the lock is removed,
\* the file never changes again.
C8_CacheFileImmutable ==
  [][(FileComplete /\ ~lock.exists) => file' = file]_vars

\* C9: a remote file whose name does not end in ".csv" is answered 400; the
\* lock is deleted, the content is never requested and the cache file is
\* not touched.
C9_NotCsvRejected ==
  [][\A r \in Requests :
       (MetaReturn(r) /\ req'[r].fault = "name") =>
         /\ req'[r].status = 400 /\ req'[r].responded
         /\ ~lock'.exists
         /\ "content" \notin req'[r].calls
         /\ UNCHANGED file]_vars

\* C10: a request whose lock marker cannot be created is answered 500 and
\* makes no remote metadata call, no remote download and no cache-file write.
C10_LockFailureIsFatal ==
  \A r \in Requests :
    req[r].fault = "lock" =>
      /\ req[r].pc = "done" /\ req[r].status = 500 /\ req[r].responded
      /\ req[r].calls = {} /\ ~req[r].madeLock
      /\ req[r].src # "remote" /\ req[r].fed = 0 /\ req[r].wpos = 0
      /\ req[r].body = <<>>

C10_Witness ==
  \E r \in Requests : req[r].fault = "lock" /\ req[r].status = 500

\* C11: when the metadata call, the opening of the content stream or the
\* content stream itself fails, the request is answered with a 5xx status
\* and the lock marker is gone.
C11_RemoteErrorFails5xx ==
  [][\A r \in Requests :
       (req[r].fault # req'[r].fault /\ req'[r].fault \in {"meta", "open", "stream"}) =>
         /\ req'[r].status >= 500
         /\ ~lock'.exists]_vars

\* C12: when the disk branch of a download finishes without a stream error,
\* the downloading client has received the remote bytes in order and the
\* cache file inflates to the same bytes.
C12_TeeDeliversSameBytes ==
  [][\A r \in Requests :
       DiskFinish(r) =>
         /\ req[r].body = RemoteBytes(req[r].ver)
         /\ Gunzip(file'.data) = [out |-> req[r].body, ok |-> TRUE]]_vars

\* ------------------------------------------------------------ sheet route
SameKey(p, r) == p # r /\ sreq[p].pc # "new" /\ sreq[p].key = sreq'[r].key

Fetches(r) == sreq'[r].calls # <<>>

\* C13 as stated: a request arriving within 30 s of an earlier request
\* with the same key makes no remote fetch, and one arriving more than
\* 30 s after the entry of that key was inserted does.
C13_SecondRequestWithinTtlNoFetch ==
  [][\A r \in SheetRequests :
       SArrive(r) =>
         /\ (\E p \in SheetRequests :
               SameKey(p, r) /\ sreq[p].since * TickMs < CACHE_TTL_MS)
            => ~Fetches(r)
         /\ ( /\ \E p \in SheetRequests : SameKey(p, r) /\ sreq[p].src = "remote"
              /\ \A p \in SheetRequests :
                   (SameKey(p, r) /\ sreq[p].src = "remote")
                     => sreq[p].sincePut * TickMs > CACHE_TTL_MS )
            => Fetches(r)]_vars

\* C13, amended: a request arriving less than 30 s after an earlier request
\* with the same key stored its fetched rows makes no remote fetch and is
\* answered from the cache; one arriving more than 30 s after the last such
\* store does fetch.
C13_WithinTtlOfInsertionNoFetch ==
  [][\A r \in SheetRequests :
       SArrive(r) =>
         /\ (\E p \in SheetRequests :
               /\ SameKey(p, r) /\ sreq[p].src = "remote"
               /\ sreq[p].sincePut * TickMs < CACHE_TTL_MS)
            => (~Fetches(r) /\ sreq'[r].src = "cache" /\ sreq'[r].pc = "done")
         /\ ( /\ \E p \in SheetRequests : SameKey(p, r) /\ sreq[p].src = "remote"
              /\ \A p \in SheetRequests :
                   (SameKey(p, r) /\ sreq[p].src = "remote")
                     => sreq[p].sincePut * TickMs > CACHE_TTL_MS )
            => Fetches(r)]_vars

C13_Witness ==
  \E r, p \in SheetRequests :
    /\ p # r /\ sreq[p].src = "remote" /\ sreq[p].key = sreq[r].key
    /\ sreq[r].src = "cache" /\ sreq[r].calls = <<>>
    /\ sreq[p].sincePut > 0

\* A step stores rows in the cache: an entry is new, or its rows or its
\* time to live start afresh.
Stores(key) ==
  /\ key \in DOMAIN memoryCache'
  /\ \/ key \notin DOMAIN memoryCache
     \/ memoryCache'[key].rows # memoryCache[key].rows
     \/ memoryCache'[key].age < memoryCache[key].age

FetchReturns(r) == SMetaReturn(r) \/ SValuesReturn(r)

\* C14: a fetch that fails (metadata or values) is answered 500, is not
\* retried and leaves the cache exactly as it was; the cache is written only
\* by the return of a successful fetch, with the rows it fetched.
C14_FailedFetchLeavesCache ==
  [][/\ \A r \in SheetRequests :
          (FetchReturns(r) /\ sreq'[r].pc = "done" /\ sreq'[r].src # "remote") =>
            /\ sreq'[r].res.status = 500
            /\ sreq'[r].calls = sreq[r].calls
            /\ memoryCache' = memoryCache
     /\ \A r \in SheetRequests :
          sreq[r].pc = "done" => sreq'[r].pc = "done" /\ sreq'[r].calls = sreq[r].calls
     /\ \A key \in DOMAIN memoryCache' :
          Stores(key) =>
            \E r \in SheetRequests :
              /\ SValuesReturn(r) /\ sreq'[r].src = "remote" /\ sreq[r].key = key
              /\ memoryCache'[key].rows = RemoteRows(sheet)
              /\ sreq'[r].res.status # 500]_vars

C14_Witness ==
  \E r \in SheetRequests :
    /\ sreq[r].pc = "done" /\ sreq[r].res.status = 500 /\ sreq[r].calls # <<>>
    /\ sreq[r].key \notin DOMAIN memoryCache
    /\ DOMAIN memoryCache # {}

\* --------------------------------------------------------------- cache key
\* What a request asks for: resource id, tab selector, selector kind, output
\* mode and, in header-row mode, header-row index and null-header policy.
Components(q) ==
  [id |-> q.spreadsheetId, selector |-> q.sheetParam, byIndex |-> usesTabIndex(q),
   raw |-> isRaw(q),
   headerRow |-> IF isRaw(q) THEN NaN ELSE headerRowOf(q),
   allowNull |-> IF isRaw(q) THEN FALSE ELSE allowsNullableHeaders(q)]

\* C15: two requests that agree on every component have the same cache key,
\* and two requests that differ in a component have different keys.
C15_KeyIffComponents ==
  ret.fn = "cacheKey" =>
    ((Components(arg.q1) = Components(arg.q2)) <=> (ret.k1 = ret.k2))

\* -------------------------------------------------------------- normalizer
Rectangular(grid) ==
  \A i \in 1..Len(grid) : Len(grid[i]) = Len(grid[1])

Applied == ret.fn \in {"sendCsv", "sendRawCsv"}

\* C16: every grid the normalizer emits, in header-row mode with or without
\* null-header suppression and in raw mode, is rectangular, the header row
\* included.
C16_EmittedGridRectangular ==
  Applied => Rectangular(ret.res.grid)

\* The longest row of a grid.
MaxLen(rows) ==
  IF Len(rows) = 0 THEN 0
  ELSE CHOOSE n \in {Len(rows[i]) : i \in 1..Len(rows)} :
         \A i \in 1..Len(rows) : Len(rows[i]) <= n

\* The spreadsheet label of column i, counted from 0, for the first 26.
Label(i) == <<Letters[i + 1]>>

\* C17: raw mode on a non-empty input discards no row and truncates none,
\* and puts exactly one synthetic header row in front, as long as the
\* longest row, whose i-th cell is the label of column i.
C17_RawKeepsRowsUnderLabels ==
  (ret.fn = "sendRawCsv" /\ Len(arg.rows) > 0) =>
    LET grid == ret.res.grid
    IN /\ ret.res.status = 200
       /\ Len(grid) = Len(arg.rows) + 1
       /\ \A i \in 1..Len(arg.rows) :
            /\ Len(grid[i + 1]) >= Len(arg.rows[i])
            /\ \A j \in 1..Len(arg.rows[i]) : grid[i + 1][j] = arg.rows[i][j]
       /\ Len(grid[1]) = MaxLen(arg.rows)
       /\ \A i \in 1..Len(grid[1]) : grid[1][i] = Label(i - 1)

C17_Witness ==
  /\ ret.fn = "sendRawCsv"
  /\ Len(arg.rows) = MaxRows
  /\ Len(arg.rows[1]) < Len(arg.rows[2])
  /\ Len(ret.res.grid[1]) = MaxCols

\* Header-row mode was applied with a header row inside the input.
HeaderMode ==
  /\ ret.fn = "sendCsv"
  /\ ~ret.headerRow.nan
  /\ 1 <= ret.headerRow.val /\ ret.headerRow.val <= Len(arg.rows)

\* The rows from the header row on, each cut or filled with empty cells to
\* the length of the header row.
FromHeader(rows, h) ==
  [k \in 1..(Len(rows) - h + 1) |->
     [j \in 1..Len(rows[h]) |->
        IF j <= Len(rows[h + k - 1]) THEN rows[h + k - 1][j] ELSE EmptyCell]]

\* The members of a set of column positions, in ascending order.
Ascending(S) ==
  CHOOSE f \in [1..Cardinality(S) -> S] :
    \A a, b \in 1..Cardinality(S) : a < b => f[a] < f[b]

\* A grid cut down to the columns at the positions S, in their order.
Columns(grid, S) ==
  [k \in 1..Len(grid) |-> [c \in 1..Cardinality(S) |-> grid[k][Ascending(S)[c]]]]

\* C18: in header-row mode with 1 <= headerRow <= row count the rows before
\* the header row are gone, the column count is the length of the header
\* row and every row from it on is cut or right-padded to that count, order
\* and kept cells unchanged; null-header suppression then only drops whole
\* columns of that grid.
C18_RowsCutOrPaddedToHeader ==
  HeaderMode =>
    LET expected == FromHeader(arg.rows, ret.headerRow.val)
    IN /\ ret.res.status = 200
       /\ ret.allowNullableHeaders => ret.res.grid = expected
       /\ \E S \in SUBSET (1..Len(expected[1])) : ret.res.grid = Columns(expected, S)

C18_Witness ==
  /\ HeaderMode /\ ret.allowNullableHeaders
  /\ ret.headerRow.val = 2 /\ Len(arg.rows) = 3
  /\ Len(arg.rows[1]) # Len(arg.rows[2])
  /\ Len(arg.rows[2]) < Len(arg.rows[3])
  /\ Len(ret.res.grid) = 2 /\ Len(ret.res.grid[2]) = Len(arg.rows[2])

InvalidHeaders == {EmptyCell, NA, REF}

\* C19: with null-header suppression active, exactly the columns whose
\* header cell is empty, '#N/A' or '#REF!' are removed, from the header row
\* and from every other row alike, and the columns left keep their order.
C19_InvalidHeaderColumnsRemoved ==
  (HeaderMode /\ ~ret.allowNullableHeaders) =>
    LET h == ret.headerRow.val
        valid == {j \in 1..Len(arg.rows[h]) : arg.rows[h][j] \notin InvalidHeaders}
    IN ret.res.grid = Columns(FromHeader(arg.rows, h), valid)

C19_Witness ==
  /\ HeaderMode /\ ~ret.allowNullableHeaders
  /\ Len(arg.rows) > ret.headerRow.val
  /\ arg.rows[ret.headerRow.val] = <<REF, <<"a">>>>
  /\ Len(arg.rows[ret.headerRow.val + 1]) = 2
  /\ Len(ret.res.grid[1]) = 1 /\ ret.res.grid[1][1] = <<"a">>

\* ------------------------------------------------------ header row range
\* Request r is answered in this step from the given rows: on the miss
\* path from the rows just fetched, on the hit path from the cached rows.
AnsweredFrom(r, rows) ==
  \/ SValuesReturn(r) /\ sreq'[r].src = "remote" /\ rows = RemoteRows(sheet)
  \/ /\ SArrive(r) /\ sreq'[r].src = "cache"
     /\ sreq'[r].key \in DOMAIN memoryCache
     /\ rows = memoryCache[sreq'[r].key].rows

PastTheEnd(r, rows) ==
  ~isRaw(sreq'[r].q) /\ Gt(headerRowOf(sreq'[r].q), Len(rows))

RangeError(r, rows) ==
  /\ sreq'[r].res.status = 400
  /\ sreq'[r].res.msg = OutOfRange(headerRowOf(sreq'[r].q), Len(rows))
  /\ sreq'[r].res.msg.lo = 1 /\ sreq'[r].res.msg.hi = Len(rows)

SheetGrids == {RemoteRows(v) : v \in 1..MaxVer}

\* C20 as stated: in header-row mode a headerRow greater than the number of
\* fetched rows is answered 400 with the range 1..rowCount, on the miss path
\* and on the hit path.
C20_HeaderRowPastEndIs400 ==
  [][\A r \in SheetRequests : \A rows \in SheetGrids :
       (AnsweredFrom(r, rows) /\ PastTheEnd(r, rows)) => RangeError(r, rows)]_vars

\* C20, amended: in header-row mode a headerRow greater than the number of
\* fetched rows is answered 400 with the range 1..rowCount when at least one
\* row was fetched, on the miss path and on the hit path; when no row was
\* fetched the answer is 200 with an empty body whatever headerRow is.
C20_HeaderRowPastEndOfRowsIs400 ==
  [][\A r \in SheetRequests : \A rows \in SheetGrids :
       (AnsweredFrom(r, rows) /\ PastTheEnd(r, rows)) =>
         IF Len(rows) >= 1 THEN RangeError(r, rows)
         ELSE sreq'[r].res = EmptyCsv]_vars

C20_Witness ==
  \E r, p \in SheetRequests :
    /\ p # r /\ sreq[p].key = sreq[r].key
    /\ sreq[p].src = "remote" /\ sreq[p].res.status = 400
    /\ sreq[r].src = "cache" /\ sreq[r].res.status = 400
    /\ sreq[r].res.msg.hi = 2 /\ headerRowOf(sreq[r].q) = Num(3)

\* ------------------------------------------------ headerRow validation
\* The headerRow parameter is given and is not a positive integer.
BadHeaderRow(q) ==
  /\ q.headerRow # Absent
  /\ parseInt(q.headerRow).nan \/ parseInt(q.headerRow).val < 1

\* C21: a request in header-row mode whose headerRow parameter is not a
\* positive integer (unparseable, 0 or negative) is answered 400 on arrival,
\* with no remote call, no cache write and no CSV body.
C21_BadHeaderRowRejected ==
  [][\A r \in SheetRequests :
       (SArrive(r) /\ ~isRaw(sreq'[r].q) /\ BadHeaderRow(sreq'[r].q)) =>
         /\ sreq'[r].pc = "done" /\ sreq'[r].res.status = 400
         /\ sreq'[r].calls = <<>>
         /\ sreq'[r].res.body = <<>> /\ sreq'[r].res.type # "text/csv"
         /\ UNCHANGED memoryCache]_vars

\* ------------------------------------------------------------ empty input
\* Nothing remains once the rows before header row h are discarded.
NothingRemains(rows, h) == \A i \in 1..Len(rows) : i < h

Normal(text) ==
  LET kept == {i \in 1..Len(text) :
                 ~(text[i] = "\n" /\ i > 1 /\ text[i - 1] = "\r")}
  IN [k \in 1..Cardinality(kept) |->
        IF text[Ascending(kept)[k]] = "\r" THEN "\n" ELSE text[Ascending(kept)[k]]]

Trigger(text) == \E i \in 1..Len(text) : text[i] \in {"\"", ",", "\n"}

QuoteCount(text) == Cardinality({i \in 1..Len(text) : text[i] = "\""})

\* A text with every pair of double quotes read as one.
RECURSIVE Undouble(_)
Undouble(text) ==
  IF Len(text) = 0 THEN <<>>
  ELSE IF Len(text) >= 2 /\ text[1] = "\"" /\ text[2] = "\""
       THEN <<"\"">> \o Undouble(Tail(Tail(text)))
       ELSE <<text[1]>> \o Undouble(Tail(text))

\* C23: the encoder turns an absent cell into the empty text, every CR-LF
\* and every bare CR into one LF (no CR is left), doubles every double
\* quote, and wraps the cell in double quotes exactly when the transformed
\* text holds a double quote, a comma or a line feed.
C23_CellEncoding ==
  ret.fn = "csvCell" =>
    LET text == IF arg.cell = NullCell THEN <<>> ELSE arg.cell
        encoded == ret.text
        inner == IF Trigger(Normal(text))
                 THEN SubSeq(encoded, 2, Len(encoded) - 1) ELSE encoded
    IN /\ arg.cell = NullCell => encoded = <<>>
       /\ \A i \in 1..Len(encoded) : encoded[i] # "\r"
       /\ Trigger(Normal(text)) =>
            /\ Len(encoded) >= 2
            /\ encoded[1] = "\"" /\ encoded[Len(encoded)] = "\""
       /\ ~Trigger(Normal(text)) => encoded = Normal(text)
       /\ Undouble(inner) = Normal(text)
       /\ QuoteCount(inner) = 2 * QuoteCount(Normal(text))

\* The cell ,"a is encoded as ","""a" .
C23_Witness ==
  /\ ret.fn = "csvCell"
  /\ arg.cell = <<",", "\"", "a">>
  /\ ret.text = <<"\"", ",", "\"", "\"", "a", "\"">>

\* The texts of a sequence one after the other.
RECURSIVE Flat(_)
Flat(pieces) ==
  IF Len(pieces) = 0 THEN <<>> ELSE pieces[1] \o Flat(Tail(pieces))

\* The texts of a sequence with sep between each two of them.
Between(texts, sep) ==
  Flat([k \in 1..(IF Len(texts) = 0 THEN 0 ELSE 2 * Len(texts) - 1) |->
          IF k % 2 = 1 THEN texts[(k + 1) \div 2] ELSE sep])

PlainCell(cell) ==
  /\ cell # NullCell
  /\ \A i \in 1..Len(cell) : cell[i] \notin {"\"", ",", "\r", "\n"}

\* C24: the encoded cells of a row are joined with commas and the rows with
\* exactly one line feed, with no line feed after the last row; when no
\* cell holds a quote, a comma, a CR or an LF the output is the cells' own
\* texts, unquoted, joined in the same way.
C24_CommasAndLineFeeds ==
  ret.fn = "csvContent" =>
    LET grid == arg.grid
        line(i) == Between([j \in 1..Len(grid[i]) |-> csvCell(grid[i][j])], <<",">>)
        own(i) == Between([j \in 1..Len(grid[i]) |-> grid[i][j]], <<",">>)
    IN /\ ret.body = Between([i \in 1..Len(grid) |-> line(i)], <<"\n">>)
       /\ (\A i \in 1..Len(grid) : \A j \in 1..Len(grid[i]) : PlainCell(grid[i][j])) =>
            ret.body = Between([i \in 1..Len(grid) |-> own(i)], <<"\n">>)

\* The rows (a, empty) and (empty, a) are encoded as  a,  LF  ,a .
C24_Witness ==
  /\ ret.fn = "csvContent"
  /\ arg.grid = << << <<"a">>, <<>> >>, << <<>>, <<"a">> >> >>
  /\ ret.body = <<"a", ",", "\n", ",", "a">>

\* RFC-4180 reading of a text with LF as the row separator: a field that
\* starts with a double quote runs to the next double quote that is not
\* doubled, a doubled double quote inside it is one double quote; any other
\* field runs to the next comma or line feed.  A line feed always separates
\* two rows, so an empty last line is a row of one empty field.
RECURSIVE Rfc4180Read(_, _, _, _, _, _)
Rfc4180Read(text, i, mode, field, row, rows) ==
  IF i > Len(text) THEN Append(rows, Append(row, field))
  ELSE IF mode = "quoted"
       THEN IF text[i] = "\"" /\ i < Len(text) /\ text[i + 1] = "\""
            THEN Rfc4180Read(text, i + 2, "quoted", Append(field, "\""), row, rows)
            ELSE IF text[i] = "\""
                 THEN Rfc4180Read(text, i + 1, "closed", field, row, rows)
                 ELSE Rfc4180Read(text, i + 1, "quoted", Append(field, text[i]), row, rows)
       ELSE IF mode = "start" /\ text[i] = "\""
            THEN Rfc4180Read(text, i + 1, "quoted", field, row, rows)
            ELSE IF text[i] = ","
                 THEN Rfc4180Read(text, i + 1, "start", <<>>, Append(row, field), rows)
                 ELSE IF text[i] = "\n"
                      THEN Rfc4180Read(text, i + 1, "start", <<>>, <<>>,
                                       Append(rows, Append(row, field)))
                      ELSE Rfc4180Read(text, i + 1, "plain", Append(field, text[i]), row, rows)

Rfc4180(text) == Rfc4180Read(text, 1, "start", <<>>, <<>>, <<>>)

NoCr(grid) ==
  \A i \in 1..Len(grid) : \A j \in 1..Len(grid[i]) :
    /\ grid[i][j] # NullCell
    /\ \A k \in 1..Len(grid[i][j]) : grid[i][j][k] # "\r"

\* C25: for every rectangular grid of at least one row and one column whose
\* cells are texts without a CR, reading the encoder's output by the
\* RFC-4180 rules gives back the grid: as many rows, as many columns, the
\* same cell texts.
C25_RoundTrip ==
  (/\ ret.fn = "csvContent"
   /\ Len(arg.grid) >= 1 /\ Rectangular(arg.grid) /\ Len(arg.grid[1]) >= 1
   /\ NoCr(arg.grid)) =>
    Rfc4180(ret.body) = arg.grid

\* A grid holding a quote, a comma and a line feed is read back.
C25_Witness ==
  /\ ret.fn = "csvContent"
  /\ arg.grid = << << <<"\"">>, <<",">> >>, << <<"\n">>, <<"a">> >> >>
  /\ ret.body = <<"\"", "\"", "\"", "\"", ",", "\"", ",", "\"", "\n",
                  "\"", "\n", "\"", ",", "a">>
  /\ Rfc4180(ret.body) = arg.grid

\* ------------------------------------------------------- fetch by tab index
ValidIndex(r) == 0 <= sreq[r].tabIndex /\ sreq[r].tabIndex < Len(Titles)

\* C26: fetch-by-index has called the metadata operation, and nothing else,
\* when that returns; it then fetches the values of the tab at position
\* tabIndex only if 0 <= tabIndex < number of tabs, and otherwise fails with
\* the 'Invalid tab index' error carrying the index and the number of tabs,
\* fetches no values and leaves the cache as it was.
C26_IndexCheckedBeforeValues ==
  [][\A r \in SheetRequests :
       SMetaReturn(r) =>
         /\ sreq[r].calls = <<"spreadsheets.get">>
         /\ sreq'[r].pc = "values" =>
              /\ ValidIndex(r)
              /\ sreq'[r].title = Titles[sreq[r].tabIndex + 1]
              /\ sreq'[r].calls = <<"spreadsheets.get", "values.get">>
         /\ (sreq'[r].tabs >= 0 /\ ~ValidIndex(r)) =>
              /\ sreq'[r].pc = "done"
              /\ sreq'[r].res.status >= 400
              /\ sreq'[r].res.msg = InvalidTabIndex(sreq[r].tabIndex, Len(Titles))
              /\ sreq'[r].calls = <<"spreadsheets.get">>
              /\ UNCHANGED memoryCache]_vars

\* A request for the tab at index 1 of a spreadsheet with one tab has
\* failed after the metadata call, with an empty cache.
C26_Witness ==
  \E r \in SheetRequests :
    /\ sreq[r].pc = "done" /\ usesTabIndex(sreq[r].q)
    /\ sreq[r].tabIndex = Len(Titles) /\ sreq[r].tabs = Len(Titles)
    /\ sreq[r].calls = <<"spreadsheets.get">>
    /\ sreq[r].res.msg = InvalidTabIndex(Len(Titles), Len(Titles))
    /\ memoryCache = <<>>

\* C27: every request of the sheet route rejected for a missing or invalid
\* path or query parameter (an empty spreadsheetId or tab selector, or with
\* useTabIndex=1 a tab selector that is unparseable, negative or not less
\* than the number of tabs) is answered with a 4xx status.
C27_BadParameterIs4xx ==
  \A r \in SheetRequests :
    (/\ sreq[r].pc = "done"
     /\ sreq[r].res.msg.text \in {"Missing spreadsheetId or sheetParam.",
                                  "Invalid tab index",
                                  "Error fetching sheet data: Invalid tab index"}) =>
      sreq[r].res.status \in 400..499

\* ------------------------------------------------------------ column labels
Ord(letter) == CHOOSE k \in 1..26 : Letters[k] = letter

\* The number a label stands for in bijective base 26, A = 1 to Z = 26.
RECURSIVE Bijective26(_)
Bijective26(label) ==
  IF Len(label) = 0 THEN 0
  ELSE 26 * Bijective26(SubSeq(label, 1, Len(label) - 1)) + Ord(label[Len(label)])

\* Label a comes before label b: shorter, or as long and earlier in the
\* alphabet.
Before(a, b) ==
  \/ Len(a) < Len(b)
  \/ /\ Len(a) = Len(b)
     /\ \E i \in 1..Len(a) :
          /\ Ord(a[i]) < Ord(b[i])
          /\ \A j \in 1..(i - 1) : a[j] = b[j]

\* C28: getColumnName returns, for every index n >= 0, the label of n + 1
\* in bijective base 26 over A..Z (0 -> A, 25 -> Z, 26 -> AA, 27 -> AB,
\* 701 -> ZZ, 702 -> AAA); the label of every smaller index is a different
\* one that comes before it, by length and then alphabetically.
C28_ColumnLabels ==
  ret.fn = "getColumnName" =>
    /\ Len(ret.label) >= 1
    /\ \A i \in 1..Len(ret.label) : \E k \in 1..26 : Letters[k] = ret.label[i]
    /\ Bijective26(ret.label) = arg.n + 1
    /\ arg.n = 0 => ret.label = <<"A">>
    /\ arg.n = 25 => ret.label = <<"Z">>
    /\ arg.n = 26 => ret.label = <<"A", "A">>
    /\ arg.n = 27 => ret.label = <<"A", "B">>
    /\ arg.n = 701 => ret.label = <<"Z", "Z">>
    /\ arg.n = 702 => ret.label = <<"A", "A", "A">>
    /\ \A m \in 0..(arg.n - 1) :
         /\ getColumnName(m) # ret.label
         /\ Before(getColumnName(m), ret.label)

\* The index 702 has got the first label of three letters.
C28_Witness ==
  ret.fn = "getColumnName" /\ arg.n = 702 /\ ret.label = <<"A", "A", "A">>

\* ------------------------------------------------------ real-time access
\* C29: a response reflects the latest data of the source at the time the
\* request is made: a request of the sheet route answered with CSV on its
\* arrival gets the rows the spreadsheet holds at that moment.
C29_ResponseReflectsSource ==
  [][\A r \in SheetRequests :
       (SArrive(r) /\ sreq'[r].pc = "done" /\ sreq'[r].res.status = 200) =>
         sreq'[r].res = respond(sreq'[r].q, RemoteRows(sheet))]_vars

\* ---------------------------------------------------------------- raw mode
\* C30: two raw-mode requests for the same spreadsheet, tab selector and
\* useTabIndex, whatever their headerRow and allowNulableHeaders, have the
\* same cache key and get the same status and body for the same rows.
C30_RawIgnoresHeaderParameters ==
  (/\ ret.fn = "respond"
   /\ isRaw(arg.q1) /\ isRaw(arg.q2)
   /\ arg.q1.spreadsheetId = arg.q2.spreadsheetId
   /\ arg.q1.sheetParam = arg.q2.sheetParam
   /\ usesTabIndex(arg.q1) = usesTabIndex(arg.q2)) =>
    /\ ret.k1 = ret.k2
    /\ ret.res1.status = ret.res2.status
    /\ ret.res1.body = ret.res2.body

\* A raw request with an unparseable headerRow and one with a headerRow past
\* the last row and allowNulableHeaders=1 got the same key and the same CSV.
C30_Witness ==
  /\ ret.fn = "respond"
  /\ isRaw(arg.q1) /\ isRaw(arg.q2)
  /\ arg.q1.sheetParam = arg.q2.sheetParam
  /\ usesTabIndex(arg.q1) = usesTabIndex(arg.q2)
  /\ arg.q1.headerRow = <<"x">> /\ arg.q1.allowNulableHeaders = Absent
  /\ arg.q2.headerRow = <<"9">> /\ arg.q2.allowNulableHeaders = One
  /\ arg.rows # <<>>
  /\ ret.k1 = ret.k2
  /\ ret.res1.status = 200 /\ ret.res1.body # <<>>
  /\ ret.res1 = ret.res2

\* ================================================= drive route, lock marker
\* A step of the download of request r, from the return of the metadata
\* call to the removal of the lock marker.
DownloadStep(r) ==
  \/ MetaReturn(r) \/ OpenReturn(r) \/ Data(r) \/ End(r)
  \/ DiskWrite(r) \/ DiskFinish(r) \/ UnlinkDone(r) \/ StreamError(r)

Removed == lock.exists /\ ~lock'.exists

\* C31: a download that has not failed removes the lock marker only once its
\* disk branch has written the whole compressed content, trailer included,
\* to the cache file; no step it takes while still writing removes the lock.
C31_LockRemovedAfterWrite ==
  [][\A r \in Requests :
       (DownloadStep(r) /\ Removed /\ req'[r].fault = "none") =>
         /\ req[r].pc = "unlinking"
         /\ req[r].ended
         /\ req[r].wpos = ChunkCount + 1]_vars

\* A single request has downloaded the file, written it completely and
\* removed the lock marker it made.
C31_Witness ==
  \E r \in Requests :
    /\ req[r].pc = "done" /\ req[r].madeLock /\ req[r].fault = "none"
    /\ req[r].wpos = ChunkCount + 1
    /\ FileComplete
    /\ ~lock.exists
    /\ \A q \in Requests \ {r} : req[q].pc = "new"

\* ================================================ overlapping sheet fetches
Fetched(r) == SValuesReturn(r) /\ sreq'[r].src = "remote"

\* C32: a lookup is answered only from the rows of a fetch that has already
\* completed; every request that missed completes a fetch of its own, and
\* the entry of a key always holds the rows of the successful fetch for that
\* key that completed last: each successful fetch stores its rows when it
\* completes, and nothing else puts or changes the rows of an entry.
C32_LastCompletedFetchWins ==
  [][/\ \A r \in SheetRequests :
          Fetched(r) =>
            /\ sreq[r].calls # <<>>
            /\ sreq[r].calls[Len(sreq[r].calls)] = "values.get"
            /\ sreq[r].key \in DOMAIN memoryCache'
            /\ memoryCache'[sreq[r].key].rows = sreq'[r].rows
     /\ \A k \in DOMAIN memoryCache' :
          (k \notin DOMAIN memoryCache \/ memoryCache'[k].rows # memoryCache[k].rows) =>
            \E r \in SheetRequests : Fetched(r) /\ sreq[r].key = k
     /\ \A r \in SheetRequests :
          (SArrive(r) /\ sreq'[r].src = "cache") =>
            /\ sreq'[r].calls = <<>>
            /\ sreq'[r].rows = memoryCache[sreq'[r].key].rows
            /\ \E p \in SheetRequests :
                 /\ sreq[p].pc = "done" /\ sreq[p].src = "remote"
                 /\ sreq[p].key = sreq'[r].key
                 /\ sreq[p].rows = sreq'[r].rows]_vars

\* Two fetches for one key overlapped (the second request arrived a tick or
\* more before the first stored its rows) and got different rows; the entry
\* holds the rows of the one that completed last, which started first.
C32_Witness ==
  \E r1, r2 \in SheetRequests :
    /\ r1 < r2
    /\ sreq[r1].pc = "done" /\ sreq[r1].src = "remote"
    /\ sreq[r2].pc = "done" /\ sreq[r2].src = "remote"
    /\ sreq[r1].key = sreq[r2].key
    /\ sreq[r1].rows # sreq[r2].rows
    /\ sreq[r2].sincePut > sreq[r1].sincePut
    /\ sreq[r1].since > sreq[r1].sincePut
    /\ sreq[r1].key \in DOMAIN memoryCache
    /\ memoryCache[sreq[r1].key].rows = sreq[r1].rows

\* ======================================================== the poll loop
\* C33: every call of waitForCacheFile is settled, resolved or rejected, and
\* no later than the timeout plus one poll interval after it started,
\* whatever is done to the lock marker meanwhile.
C33_WaitIsSettledInTime ==
  /\ [](req[Waiter].pc = "waiting" =>
          /\ req[Waiter].waited * INTERVAL <= TIMEOUT + INTERVAL
          /\ req[Waiter].waited * INTERVAL > TIMEOUT => req[Waiter].due)
  /\ (req[Waiter].pc = "waiting" ~> req[Waiter].pc \in {"resolved", "rejected"})

\* A wait was rejected at the timeout plus one interval, the lock marker
\* present and not stale to the end.
C33_Witness ==
  /\ req[Waiter].pc = "rejected"
  /\ req[Waiter].waited * INTERVAL = TIMEOUT + INTERVAL
  /\ lock.exists

\* =========================================================== lock ownership
\* C34: the lock marker is deleted only by the request that created it or
\* by a request whose check() found it older than the timeout, and a
\* download never deletes the lock marker of another download that is still
\* running.
C34_LockDeletedByOwnerOrWhenStale ==
  [][Removed =>
       /\ \E r \in Requests :
            \/ DownloadStep(r) /\ lock.owner = r
            \/ CheckStep(r, "stale")
       /\ \A r \in Requests :
            (DownloadStep(r) /\ lock.owner # r) =>
              req[lock.owner].pc \notin {"meta", "open", "streaming", "unlinking"}]_vars

\* C35: a request running check(), on arrival or on a poll, removes the lock
\* marker only if the marker is then older than the timeout, strictly; and
\* a request that found no lock marker on arrival removes none before it
\* has created its own.
C35_WaiterRemovesOnlyStaleLock ==
  [][\A r \in Requests :
       /\ ((Arrive(r) \/ Poll(r)) /\ Removed) => lock.age * TickMs > TIMEOUT
       /\ ((Arrive(r) \/ Poll(r) \/ Serve(r) \/ DownloadStep(r)) /\ Removed
             /\ ~req'[r].foundLock) =>
            req[r].madeLock]_vars

\* A request that found the lock marker has removed it as stale: the
\* download that made the marker is still running and has not removed it.
C35_Witness ==
  \E r, q \in Requests :
    /\ r # q
    /\ req[r].foundLock /\ ~req[r].madeLock /\ req[r].pc = "serving"
    /\ req[q].madeLock /\ InFlight(q) /\ req[q].fault = "none"
    /\ ~lock.exists
    /\ \A p \in Requests \ {r, q} : req[p].pc = "new"

\* ================================================== rendering and the cache
\* The fetch of request p put the rows that the entry of the key holds.
Populated(p, key) ==
  /\ sreq[p].pc = "done" /\ sreq[p].src = "remote"
  /\ sreq[p].key = key
  /\ sreq[p].rows = memoryCache[key].rows

\* C36: answering a request from the cache leaves the cached rows as they
\* are, and the hit gets exactly the status and the body that the miss
\* which put the entry got.
C36_HitRepeatsPopulatingMiss ==
  [][\A r \in SheetRequests :
       (SArrive(r) /\ sreq'[r].src = "cache") =>
         /\ memoryCache' = memoryCache
         /\ \A p \in SheetRequests :
              Populated(p, sreq'[r].key) =>
                /\ sreq'[r].res.status = sreq[p].res.status
                /\ sreq'[r].res.body = sreq[p].res.body]_vars

\* ================================================ every request is answered
\* The request has got its one answer: a CSV body, a 400 or a 500.
Answered(r) ==
  /\ req[r].pc = "done"
  /\ req[r].responded
  /\ req[r].status \in {200, 400, 500}

\* C37: every request of the drive route that has arrived is eventually
\* answered, with a CSV body, a 400 or a 500, whatever the other requests
\* for the fileId do and however the download in flight ends, unless the
\* process is killed from outside.
C37_EveryRequestAnswered ==
  \A r \in Requests : (req[r].pc # "new") ~> (Answered(r) \/ killed)

\* ================================================================ lock leak
Idle == \A r \in Requests : req[r].pc \in {"new", "done"}

Crashed == \E r \in Requests : req[r].pc = "dead"

\* C38: as long as the process has not died, a lock marker that exists is
\* eventually deleted, and whenever no request is in progress there is no
\* lock marker.
C38_NoLockLeak ==
  /\ [](Idle => ~lock.exists)
  /\ (lock.exists ~> (~lock.exists \/ Crashed))

\* Two requests have each made a lock marker, one download failed at the
\* content call and the other wrote the whole file; both are over, no
\* request is in progress and no lock marker is left.
C38_Witness ==
  /\ Idle
  /\ ~lock.exists
  /\ ~Crashed
  /\ \E r1, r2 \in Requests :
       /\ r1 # r2
       /\ req[r1].madeLock /\ req[r1].pc = "done" /\ req[r1].fault = "open"
       /\ req[r2].madeLock /\ req[r2].pc = "done" /\ req[r2].fault = "none"
       /\ req[r2].wpos = ChunkCount + 1
====
